---- MODULE Spec2Model ----
(***************************************************************************)
(* Replication subsystem of the Unifier client (src/unifier/unifier.py):   *)
(* Unifier.replicate and Unifier._replicate_native.                        *)
(*                                                                         *)
(* One replicate() call is modelled as a state machine.  The orchestrator  *)
(* thread moves through pc; the worker threads of the ThreadPoolExecutor   *)
(* are modelled by the futures they run (fut).  Everything the outside     *)
(* world decides (the server's answer, the tools installed on the host,    *)
(* the objects stored remotely, whether a download raises) is either an    *)
(* environment variable fixed by Init or a choice made by \E in an action. *)
(***************************************************************************)
EXTENDS Integers, Sequences, FiniteSets, TLC

(* ------------------------------------------------------------------ *)
(* Bounds of the model and constants of the program                    *)
(* ------------------------------------------------------------------ *)

\* Largest number of objects the remote listing holds (specification Spec).
MaxObjects == 3

\* Largest number of objects one page of the listing returns.
PageSize == 2

\* By how many objects the listing of specification SpecPool exceeds the
\* size of the worker pool.
PoolExtra == 1

\* ThreadPoolExecutor(max_workers=10)
MaxWorkers == 10

\* if completed_count % 10 == 0
ProgressEvery == 10

VARIABLES
    use_rclone,       \* argument use_rclone of replicate()
    rclone_path,      \* TRUE iff shutil.which("rclone") finds the tool
    boto3,            \* TRUE iff the import of boto3 succeeded
    target_location,  \* argument target_location of replicate()
    obj_size,         \* size in bytes of the object s3.download_file fetches
    response,         \* what the service answers to the POST
    remote,           \* objects of the listing not yet returned by a page
    faults_left,      \* how many more downloads the environment lets fail
    pc,               \* position of the orchestrator inside replicate()
    using_rclone,     \* local using_rclone
    manifest,         \* locals access_key_id .. region after validation
    out,              \* messages printed or logged so far, in order
    requests_sent,    \* POSTs to /replicate
    rclone_runs,      \* subprocess.run calls
    rclone_exit,      \* exit code of the tool (-1: it has not exited)
    native_calls,     \* calls of _replicate_native
    pages_read,       \* pages requested from the paginator
    listed,           \* objects returned by the pages so far
    download_tasks,   \* local download_tasks: keys of the planned objects
    pool_created,     \* TRUE once ThreadPoolExecutor(...) has been built
    fut,              \* state of the future of every task
    exc,              \* what the exception of a failed future says
    attempts,         \* how often _download_one was entered for a task
    nxt,              \* index of the next result executor.map yields
    completed_count,  \* local completed_count
    raised,           \* index of the task whose exception reached the loop
    dirs,             \* tasks whose local directory os.makedirs created
    files,            \* tasks whose local file download_file wrote
    seen,             \* keys the pages of the listing have returned, in order
    transfer,         \* how s3.download_file fetched the object
    response_path,    \* data.get("data_path"), character by character
    data_path,        \* local data_path of replicate(), character by character
    folders           \* data.get("folders", []), each pattern a string

\* The inputs of the run, and the variables that only the detailed models
\* of the path, of the planner and of one file transfer change.
env  == <<use_rclone, rclone_path, boto3, response, target_location, obj_size,
          seen, transfer, response_path, data_path, folders>>
orch == <<pc, using_rclone, manifest, out, requests_sent, rclone_runs,
          rclone_exit, native_calls,
          pages_read, listed, download_tasks, pool_created, nxt,
          completed_count, raised>>
pool == <<fut, exc, attempts, dirs, files>>
vars == <<env, remote, faults_left, orch, pool>>

(* ------------------------------------------------------------------ *)
(* Messages                                                             *)
(* ------------------------------------------------------------------ *)

\* One printed or logged line: its kind and the numbers it interpolates.
\* For "native_failed" n is the key the exception text names (0: none).
Msg(m, a, b) == [msg |-> m, n |-> a, total |-> b]

Said(m) == \E k \in 1..Len(out) : out[k].msg = m

DefaultEndpoint == "https://s3.wasabisys.com"
DefaultRegion == "us-east-1"

NoManifest == [access_key_id |-> "", secret_access_key |-> "", data_path |-> "",
               folders |-> FALSE, endpoint |-> "", region |-> ""]

(* ------------------------------------------------------------------ *)
(* The service's answers                                                *)
(* ------------------------------------------------------------------ *)

\* kind: "exception" (requests raises), "http_error" (status code # 200),
\* "bad_json" (status 200, body is no JSON), "json" (status 200, JSON body).
\* For a JSON body: error (it has the key "error"), data (resp_json["data"]
\* is non-empty), akid/sak (the two keys of data), path (data_path),
\* endpoint/region (the optional keys), folders (a non-empty folder list).
Resp(k, e, d, a, s, p, ep, rg, fo) ==
    [kind |-> k, error |-> e, data |-> d, akid |-> a, sak |-> s, path |-> p,
     endpoint |-> ep, region |-> rg, folders |-> fo]

Responses ==
    {Resp(k, FALSE, FALSE, FALSE, FALSE, FALSE, FALSE, FALSE, FALSE) :
        k \in {"exception", "bad_json"}}
    \cup {Resp("http_error", e, FALSE, FALSE, FALSE, FALSE, FALSE, FALSE, FALSE) :
        e \in BOOLEAN}
    \cup {Resp("json", e, FALSE, FALSE, FALSE, FALSE, FALSE, FALSE, FALSE) :
        e \in BOOLEAN}
    \cup {Resp("json", FALSE, TRUE, a, s, p, ep, rg, fo) :
        a \in BOOLEAN, s \in BOOLEAN, p \in BOOLEAN,
        ep \in BOOLEAN, rg \in BOOLEAN, fo \in BOOLEAN}

ErrorPayload(r) == r.kind = "json" /\ r.error /\ ~r.data

ValidManifest(r) == r.kind = "json" /\ r.data /\ r.akid /\ r.sak /\ r.path

(* ------------------------------------------------------------------ *)
(* replicate(): path selection and the credential exchange              *)
(* ------------------------------------------------------------------ *)

\* Variant: the tool is used whenever it is requested, installed or not.
UsingRcloneIgnoresHost(requested, present) == requested

\* using_rclone = use_rclone and (rclone_path is not None)
UsingRclone(requested, present) == requested /\ present

\* Variant: the error reports of the status code and of the missing "data"
\* are not followed by a return.
FetchOutcomesFallThrough(r) ==
    CASE r.kind = "exception"  -> {"network_failed"}
      [] r.kind = "bad_json"   -> {"network_failed", "unexpected"}
      [] r.kind = "json" /\ r.data /\ ~(r.akid /\ r.sak /\ r.path)
                               -> {"missing_credentials"}
      [] OTHER                 -> {"ok"}

\* Variant: the test of the required fields passes when any one is present.
FetchOutcomesAnyField(r) ==
    CASE r.kind = "exception"  -> {"network_failed"}
      [] r.kind = "http_error" -> {"replicate_error"}
      [] r.kind = "bad_json"   -> {"network_failed", "unexpected"}
      [] ~r.data               -> {"missing_data"}
      [] ~(r.akid \/ r.sak \/ r.path) -> {"missing_credentials"}
      [] OTHER                 -> {"ok"}

\* The request is answered and the answer validated.  The result names the
\* message the code prints and returns after; "ok" when it goes on.  A body
\* that is no JSON makes response.json() raise: a ValueError that newer
\* versions of requests also derive from RequestException, so either of the
\* two handlers may catch it.
FetchOutcomes(r) ==
    CASE r.kind = "exception"  -> {"network_failed"}
      [] r.kind = "http_error" -> {"replicate_error"}
      [] r.kind = "bad_json"   -> {"network_failed", "unexpected"}
      [] ~r.data               -> {"missing_data"}
      [] ~(r.akid /\ r.sak /\ r.path) -> {"missing_credentials"}
      [] OTHER                 -> {"ok"}

\* The locals read from the response, with the defaults of the optional keys.
Manifest(r) ==
    [access_key_id     |-> IF r.akid THEN "key-id" ELSE "",
     secret_access_key |-> IF r.sak THEN "secret" ELSE "",
     data_path         |-> IF r.path THEN "bucket/prefix" ELSE "",
     folders           |-> r.folders,
     endpoint          |-> IF r.endpoint THEN "given-endpoint" ELSE DefaultEndpoint,
     region            |-> IF r.region THEN "given-region" ELSE DefaultRegion]

\* rclone_path = shutil.which("rclone"); using_rclone; the fallback message.
CheckRclone ==
    /\ pc = "start"
    /\ using_rclone' = UsingRclone(use_rclone, rclone_path)
    /\ out' = IF use_rclone /\ ~rclone_path
              THEN Append(out, Msg("fallback", 0, 0))
              ELSE out
    /\ pc' = "fetching"
    /\ UNCHANGED <<env, remote, faults_left, manifest, requests_sent, rclone_runs, rclone_exit, native_calls,
                   pages_read, listed, download_tasks, pool_created, nxt,
                   completed_count, raised, pool>>

\* requests.post(...), the checks on the response, and the branch.
FetchCredentials ==
    /\ pc = "fetching"
    /\ requests_sent' = requests_sent + 1
    /\ \E o \in FetchOutcomes(response) :
         IF o = "ok"
         THEN /\ manifest' = Manifest(response)
              /\ pc' = IF using_rclone THEN "delegated" ELSE "native"
              /\ native_calls' = IF using_rclone THEN native_calls ELSE native_calls + 1
              /\ out' = out
         ELSE /\ manifest' = manifest
              /\ pc' = "done"
              /\ native_calls' = native_calls
              /\ out' = Append(out, Msg(o, 0, 0))
    /\ UNCHANGED <<env, remote, faults_left, using_rclone, rclone_runs, rclone_exit,
                   pages_read, listed, download_tasks, pool_created, nxt,
                   completed_count, raised, pool>>

(* ------------------------------------------------------------------ *)
(* The delegated tool                                                   *)
(* ------------------------------------------------------------------ *)

\* Variant: subprocess.run without check=True never raises on the exit code.
RcloneRaisesNever(code) == FALSE

\* subprocess.run(cmd, env=env, check=True) raises CalledProcessError
\* exactly when the exit code is not zero.
RcloneRaises(code) == code # 0

\* The command is built, the start is announced and the tool is spawned.
\* A spawn that fails raises an OSError, which "except Exception" reports.
StartRclone ==
    /\ pc = "delegated"
    /\ rclone_runs' = rclone_runs + 1
    /\ \E spawned \in BOOLEAN :
         IF spawned
         THEN /\ pc' = "rclone_wait"
              /\ out' = Append(out, Msg("rclone_start", 0, 0))
         ELSE /\ pc' = "done"
              /\ out' = out \o <<Msg("rclone_start", 0, 0), Msg("unexpected", 0, 0)>>
    /\ UNCHANGED <<env, remote, faults_left, using_rclone, manifest, requests_sent, rclone_exit, native_calls,
                   pages_read, listed, download_tasks, pool_created, nxt,
                   completed_count, raised, pool>>

\* The tool exits.
RcloneExit ==
    /\ pc = "rclone_wait"
    /\ \E code \in {0, 1} :
         /\ rclone_exit' = code
         /\ out' = Append(out, IF RcloneRaises(code)
                               THEN Msg("rclone_failed", code, 0)
                               ELSE Msg("rclone_completed", 0, 0))
    /\ pc' = "done"
    /\ UNCHANGED <<env, remote, faults_left, using_rclone, manifest, requests_sent,
                   rclone_runs, native_calls, pages_read, listed, download_tasks, pool_created,
                   nxt, completed_count, raised, pool>>

(* ------------------------------------------------------------------ *)
(* _replicate_native(): planning                                        *)
(* ------------------------------------------------------------------ *)

\* if boto3 is None: return.  Otherwise the session and the client are made,
\* outside the try of _replicate_native: an exception of theirs reaches the
\* "except Exception" of replicate().
NativeEnter ==
    /\ pc = "native"
    /\ IF ~boto3
       THEN /\ pc' = "done"
            /\ out' = Append(out, Msg("boto3_missing", 0, 0))
       ELSE \E client_ok \in BOOLEAN :
              IF client_ok
              THEN /\ pc' = "listing"
                   /\ out' = Append(out, Msg("native_start", 0, 0))
              ELSE /\ pc' = "done"
                   /\ out' = Append(out, Msg("unexpected", 0, 0))
    /\ UNCHANGED <<env, remote, faults_left, using_rclone, manifest, requests_sent,
                   rclone_runs, rclone_exit, native_calls, pages_read, listed, download_tasks, pool_created,
                   nxt, completed_count, raised, pool>>

Min(a, b) == IF a < b THEN a ELSE b

\* The keys of the objects of a page that pass the three "continue" tests
\* (key under the prefix, relative key not empty, a pattern matches), in
\* listing order.  The key of an object is its position in the listing.
RECURSIVE Matches(_, _)
Matches(page, first) ==
    IF page = <<>> THEN <<>>
    ELSE (IF Head(page) THEN <<first>> ELSE <<>>) \o Matches(Tail(page), first + 1)

\* Variant: the early return on an empty plan is missing.
NothingToDoNever(total) == FALSE

\* if total_files == 0: return
NothingToDo(total) == total = 0

\* Variant: the plan is closed after the first page.
MorePagesNever(k) == FALSE

\* for page in pages: the paginator has another page when the page just
\* read (of k objects) did not exhaust the listing.
MorePages(k) == k < Len(remote)

\* One page of the paginator is read and its objects are planned; after the
\* last page the plan is counted and, unless it is empty, the pool is built
\* and every task is submitted (executor.map submits all of them at once).
ListPage ==
    /\ pc = "listing"
    /\ remote # <<>> \/ pages_read = 0
    /\ pages_read' = pages_read + 1
    /\ \E page_ok \in BOOLEAN :
         IF ~page_ok
         THEN /\ pc' = "done"
              /\ out' = Append(out, Msg("native_failed", 0, 0))
              /\ UNCHANGED <<remote, listed, download_tasks, pool_created, fut,
                             exc, attempts>>
         ELSE LET k     == Min(PageSize, Len(remote))
                  page  == SubSeq(remote, 1, k)
                  tasks == download_tasks \o Matches(page, listed + 1)
                  total == Len(tasks)
              IN  /\ remote' = SubSeq(remote, k + 1, Len(remote))
                  /\ listed' = listed + k
                  /\ download_tasks' = tasks
                  /\ IF MorePages(k)
                     THEN /\ pc' = "listing"
                          /\ out' = out
                          /\ UNCHANGED <<pool_created, fut, exc, attempts>>
                     ELSE IF NothingToDo(total)
                     THEN /\ pc' = "done"
                          /\ out' = Append(out, Msg("no_files", 0, 0))
                          /\ UNCHANGED <<pool_created, fut, exc, attempts>>
                     ELSE /\ pc' = "transferring"
                          /\ out' = Append(out, Msg("found", 0, total))
                          /\ pool_created' = TRUE
                          /\ fut' = [i \in 1..total |-> "pending"]
                          /\ exc' = [i \in 1..total |-> "none"]
                          /\ attempts' = [i \in 1..total |-> 0]
    /\ UNCHANGED <<env, faults_left, using_rclone, manifest, requests_sent,
                   rclone_runs, rclone_exit, native_calls, nxt, completed_count, raised, dirs, files>>

(* ------------------------------------------------------------------ *)
(* _replicate_native(): the worker pool                                 *)
(* ------------------------------------------------------------------ *)

Tasks == DOMAIN fut

Running == {i \in Tasks : fut[i] = "running"}

\* Variant: one thread per task, without a limit.
WorkerFreeAlways == TRUE

\* ThreadPoolExecutor(max_workers=10): a work item is taken off the queue
\* only by a worker thread that is running none, and there are at most
\* MaxWorkers threads.
WorkerFree == Cardinality(Running) < MaxWorkers

\* Variant: a failed task is put back on the queue.
NextQueuedRetry(i) ==
    /\ fut[i] \in {"pending", "failed"}
    /\ \A j \in Tasks : j < i => fut[j] \notin {"pending", "failed"}

\* The work queue is first in, first out: the next item is the first future
\* that is still pending.
NextQueued(i) == fut[i] = "pending" /\ \A j \in Tasks : j < i => fut[j] # "pending"

\* A worker takes the next task and enters _download_one:
\* os.makedirs(local_dir, exist_ok=True), then s3.download_file starts.
\* When makedirs raises, the future fails at once; the OSError names a
\* local path, not the key.
StartDownload ==
    /\ pool_created
    /\ WorkerFree
    /\ \E i \in Tasks :
         /\ NextQueued(i)
         /\ attempts' = [attempts EXCEPT ![i] = @ + 1]
         /\ \E made \in BOOLEAN :
              IF made
              THEN /\ fut' = [fut EXCEPT ![i] = "running"]
                   /\ dirs' = dirs \cup {i}
                   /\ UNCHANGED <<exc, faults_left>>
              ELSE /\ faults_left > 0
                   /\ faults_left' = faults_left - 1
                   /\ fut' = [fut EXCEPT ![i] = "failed"]
                   /\ exc' = [exc EXCEPT ![i] = "opaque"]
                   /\ dirs' = dirs
    /\ UNCHANGED <<env, remote, orch, files>>

\* s3.download_file returns or raises.  What the text of the exception
\* says is the storage client's business: it may or may not name the key.
FinishDownload ==
    /\ \E i \in Running :
         \E res \in {"ok", "opaque", "names_key"} :
           IF res = "ok"
           THEN /\ fut' = [fut EXCEPT ![i] = "ok"]
                /\ files' = files \cup {i}
                /\ UNCHANGED <<exc, faults_left>>
           ELSE /\ faults_left > 0
                /\ faults_left' = faults_left - 1
                /\ fut' = [fut EXCEPT ![i] = "failed"]
                /\ exc' = [exc EXCEPT ![i] = res]
                /\ files' = files
    /\ UNCHANGED <<env, remote, orch, attempts, dirs>>

(* ------------------------------------------------------------------ *)
(* _replicate_native(): the loop over executor.map and its end          *)
(* ------------------------------------------------------------------ *)

\* Variant: the exception of a failed future is swallowed and counts as a
\* result.
ResultReadyOrFailed(i) == fut[i] \in {"ok", "failed"}

\* Variant: the loop stops after the first result.
LoopFinishedEarly == nxt > 1

\* Variant: shutdown(wait=False).
DrainNoWait == TRUE

\* Variant: the exception of a failed future never reaches the loop.
ResultRaisesNever(i) == FALSE

\* executor.map yields the results in the order of the tasks: the loop body
\* runs for task i once its future holds a result.
ResultReady(i) == fut[i] = "ok"

\* ... and future.result() re-raises the exception of a failed future.
ResultRaises(i) == fut[i] = "failed"

\* The loop has consumed every result.
LoopFinished == nxt > Len(download_tasks)

\* Leaving the with block calls executor.shutdown(wait=True), which returns
\* when no worker is running a task any more.
DrainDone == Running = {}

\* The key the text of the exception of task i names (0: it names none).
ExcText(i) == IF exc[i] = "names_key" THEN download_tasks[i] ELSE 0

\* What is on disk when the except clause has run: nothing is removed.
FilesAfterFailure(f) == f

\* Variant: the update is printed one file late.
ProgressDueLate(count) == count % ProgressEvery = 1

\* if completed_count % 10 == 0
ProgressDue(count) == count % ProgressEvery = 0

\* One iteration of "for _ in executor.map(...)".
YieldResult ==
    /\ pc = "transferring"
    /\ ~LoopFinished
    /\ ResultReady(nxt)
    /\ completed_count' = completed_count + 1
    /\ out' = IF ProgressDue(completed_count')
              THEN Append(out, Msg("progress", completed_count', Len(download_tasks)))
              ELSE out
    /\ nxt' = nxt + 1
    /\ UNCHANGED <<env, remote, faults_left, pc, using_rclone, manifest,
                   requests_sent, rclone_runs, rclone_exit, native_calls, pages_read, listed, download_tasks,
                   pool_created, raised, pool>>

\* The result of task nxt raises: the generator of executor.map cancels the
\* futures not yet started, and the with block starts its shutdown.
ObserveFailure ==
    /\ pc = "transferring"
    /\ ~LoopFinished
    /\ ResultRaises(nxt)
    /\ raised' = nxt
    /\ fut' = [i \in Tasks |-> IF fut[i] = "pending" THEN "cancelled" ELSE fut[i]]
    /\ pc' = "draining"
    /\ UNCHANGED <<env, remote, faults_left, using_rclone, manifest, out,
                   requests_sent, rclone_runs, rclone_exit, native_calls, pages_read, listed, download_tasks,
                   pool_created, nxt, completed_count, exc, attempts, dirs, files>>

\* The shutdown has returned and "except Exception as e" reports e.
NativeFail ==
    /\ pc = "draining"
    /\ DrainDone
    /\ out' = Append(out, Msg("native_failed", ExcText(raised), 0))
    /\ files' = FilesAfterFailure(files)
    /\ pc' = "done"
    /\ UNCHANGED <<env, remote, faults_left, using_rclone, manifest,
                   requests_sent, rclone_runs, rclone_exit, native_calls, pages_read, listed, download_tasks,
                   pool_created, nxt, completed_count, raised, fut, exc, attempts,
                   dirs>>

\* The loop is over, the shutdown has returned, the summary is printed.
NativeComplete ==
    /\ pc = "transferring"
    /\ LoopFinished
    /\ DrainDone
    /\ out' = Append(out, Msg("native_completed", Len(download_tasks),
                              Len(download_tasks)))
    /\ pc' = "done"
    /\ UNCHANGED <<env, remote, faults_left, using_rclone, manifest,
                   requests_sent, rclone_runs, rclone_exit, native_calls, pages_read, listed, download_tasks,
                   pool_created, nxt, completed_count, raised, pool>>

(* ------------------------------------------------------------------ *)
(* Specifications                                                       *)
(* ------------------------------------------------------------------ *)

\* The sequences over S of length at most n.
SeqsUpTo(S, n) == UNION {[1..k -> S] : k \in 0..n}

\* The state of one replicate() call before its first statement.
Locals ==
    /\ pc = "start"
    /\ using_rclone = FALSE
    /\ manifest = NoManifest
    /\ out = <<>>
    /\ requests_sent = 0
    /\ rclone_runs = 0
    /\ rclone_exit = -1
    /\ native_calls = 0
    /\ pages_read = 0
    /\ listed = 0
    /\ download_tasks = <<>>
    /\ pool_created = FALSE
    /\ fut = <<>>
    /\ exc = <<>>
    /\ attempts = <<>>
    /\ nxt = 1
    /\ completed_count = 0
    /\ raised = 0
    /\ dirs = {}
    /\ files = {}
    /\ seen = <<>>
    /\ transfer = [mode |-> "none", parts_left |-> 0, in_flight |-> 0]
    /\ data_path = <<>>

\* Every caller, host, answer of the service and small remote listing.
\* An object of the listing is TRUE when it is a file the plan takes.
Init ==
    /\ use_rclone \in BOOLEAN
    /\ rclone_path \in BOOLEAN
    /\ boto3 \in BOOLEAN
    /\ response \in Responses
    /\ remote \in SeqsUpTo(BOOLEAN, MaxObjects)
    /\ faults_left = MaxObjects
    /\ target_location = <<>>
    /\ obj_size = 0
    /\ response_path = <<>>
    /\ folders = <<>>
    /\ Locals

\* A listing of more files than the pool has workers, unfiltered; at most
\* one download fails.
InitPool ==
    /\ use_rclone \in BOOLEAN
    /\ rclone_path \in BOOLEAN
    /\ boto3 \in BOOLEAN
    /\ response = Resp("json", FALSE, TRUE, TRUE, TRUE, TRUE, FALSE, FALSE, FALSE)
    /\ remote = [i \in 1..(MaxWorkers + PoolExtra) |-> TRUE]
    /\ faults_left \in {0, 1}
    /\ target_location = <<>>
    /\ obj_size = 0
    /\ response_path = <<>>
    /\ folders = <<>>
    /\ Locals

Next ==
    \/ CheckRclone
    \/ FetchCredentials
    \/ StartRclone
    \/ RcloneExit
    \/ NativeEnter
    \/ ListPage
    \/ StartDownload
    \/ FinishDownload
    \/ YieldResult
    \/ ObserveFailure
    \/ NativeFail
    \/ NativeComplete

Spec == Init /\ [][Next]_vars

SpecPool == InitPool /\ [][Next]_vars

\* The threads of the run are scheduled and every external call (the POST,
\* the tool, a page of the listing, a download) returns or raises: a step
\* that is possible is eventually taken.
SpecLive == Init /\ [][Next]_vars /\ WF_vars(Next)

(* ------------------------------------------------------------------ *)
(* What a run has reported                                              *)
(* ------------------------------------------------------------------ *)

LastMsg == IF out = <<>> THEN Msg("none", 0, 0) ELSE out[Len(out)]

\* The run has reported its successful completion.
Completed == Said("rclone_completed") \/ Said("native_completed")

FailureMsgs == {"replicate_error", "missing_data", "missing_credentials",
                "network_failed", "rclone_failed", "unexpected",
                "boto3_missing", "native_failed"}

\* The run has reported a failure.
Failed == \E k \in 1..Len(out) : out[k].msg \in FailureMsgs

\* The delegated tool was, or is about to be, invoked.
DelegatedTaken == pc \in {"delegated", "rclone_wait"} \/ rclone_runs > 0

\* _replicate_native was called.
NativeTaken == native_calls > 0

\* Nothing of the native path has happened.
NoNativeWork ==
    /\ native_calls = 0
    /\ pages_read = 0
    /\ ~pool_created
    /\ Tasks = {}
    /\ dirs = {}
    /\ files = {}

\* The first failed task in plan order.
FirstFailed ==
    CHOOSE i \in Tasks : fut[i] = "failed" /\ \A j \in Tasks : j < i => fut[j] # "failed"

AnyFailed == \E i \in Tasks : fut[i] = "failed"

\* s3.download_file raised for task i (its directory had been made).
DownloadRaised(i) == fut[i] = "failed" /\ i \in dirs

(* ------------------------------------------------------------------ *)
(* Claims                                                               *)
(* ------------------------------------------------------------------ *)

\* C1: once a valid manifest is obtained, the delegated tool is taken iff it
\* was requested and is present on the host, the native path is taken in
\* every other case, never both; if the tool was requested but is absent the
\* fallback message was logged before the native path started; and in the
\* native path pages are listed before any download starts.
C1_PathSelection ==
    /\ manifest # NoManifest =>
         /\ DelegatedTaken <=> (use_rclone /\ rclone_path)
         /\ NativeTaken <=> ~(use_rclone /\ rclone_path)
         /\ (use_rclone /\ ~rclone_path) => out # <<>> /\ out[1].msg = "fallback"
    /\ ~(DelegatedTaken /\ NativeTaken)
    /\ rclone_runs > 0 => NoNativeWork
    /\ NativeTaken => rclone_runs = 0 /\ ~Said("rclone_start")
    /\ pool_created => NativeTaken /\ pages_read > 0

\* C1 witness: the tool was requested, is absent, the fallback was logged
\* and the native path downloads.
C1_Witness ==
    /\ use_rclone /\ ~rclone_path
    /\ Said("fallback")
    /\ Running # {}

\* C2: after the service has answered with an error payload the run is over
\* with the failure reported, and no listing, download or tool invocation
\* has happened nor is completion reported.
C2_ErrorPayloadFails ==
    (response.error /\ requests_sent > 0) =>
        /\ pc = "done"
        /\ LastMsg.msg \in {"replicate_error", "missing_data"}
        /\ NoNativeWork
        /\ rclone_runs = 0
        /\ ~Completed

\* C2 witness: status 200 with an error payload, tool requested and present.
C2_Witness ==
    /\ ErrorPayload(response)
    /\ use_rclone /\ rclone_path
    /\ pc = "done"

OrchestratorStep == YieldResult \/ ObserveFailure \/ NativeFail

\* C4 as stated: once a download has failed, the orchestrator never has to
\* wait for another worker before it can go on towards the report.
C4_EagerPropagation ==
    (pc \in {"transferring", "draining"} /\ \E i \in Tasks : DownloadRaised(i))
        => ENABLED OrchestratorStep

\* C4 amended: the failure is reported only after every task earlier in plan
\* order has succeeded and every download that was started has finished;
\* the tasks not yet started are cancelled.
C4_ReportAfterDrain ==
    (Said("native_failed") /\ raised > 0) =>
        /\ Running = {}
        /\ \A j \in Tasks : j < raised => fut[j] = "ok"
        /\ \A j \in Tasks : fut[j] # "pending"

\* C4 witness: the failure is reported, and a download that was in progress
\* when the failure was observed has finished before the report.
C4_Witness ==
    /\ Said("native_failed")
    /\ raised > 0
    /\ \E j \in Tasks : j > raised /\ fut[j] \in {"ok", "failed"}

\* C5: when the native run has reported completion, every planned task has
\* been downloaded successfully exactly once and none is in progress.
C5_CompletedMeansAllDone ==
    Said("native_completed") =>
        /\ Tasks = 1..Len(download_tasks)
        /\ \A i \in Tasks : fut[i] = "ok" /\ attempts[i] = 1 /\ i \in files
        /\ Running = {}
        /\ completed_count = Len(download_tasks)

\* C5 witness: completion reported for a plan of several files.
C5_Witness ==
    /\ Said("native_completed")
    /\ Len(download_tasks) >= 2

\* C6: at most MaxWorkers downloads are in progress at any moment, and a
\* task is taken off the queue only while fewer than MaxWorkers downloads
\* are in progress, that is by a worker that has finished its previous one.
C6_BoundedPool ==
    /\ [](Cardinality(Running) <= MaxWorkers)
    /\ [][\A i \in Tasks :
            (pool_created /\ fut[i] = "pending" /\ fut'[i] \in {"running", "failed"})
                => Cardinality(Running) < MaxWorkers]_vars

\* C6 witness: every worker is busy and a task waits in the queue.
C6_Witness ==
    /\ Cardinality(Running) = MaxWorkers
    /\ \E i \in Tasks : fut[i] = "pending"

\* C7: one credential request per run, every planned file attempted at most
\* once, the tool and the native path entered at most once, and a reported
\* failure ends the run.
C7_NoRetry ==
    /\ requests_sent <= 1
    /\ pc \notin {"start", "fetching"} => requests_sent = 1
    /\ rclone_runs <= 1
    /\ native_calls <= 1
    /\ \A i \in Tasks : attempts[i] <= 1
    /\ \A i \in Tasks : fut[i] \in {"running", "ok", "failed"} <=> attempts[i] = 1
    /\ Failed => pc = "done"
    /\ Len(SelectSeq(out, LAMBDA m : m.msg \in FailureMsgs)) <= 1

\* C7 witness: a run that ended on a failed download after another file
\* was downloaded.
C7_Witness ==
    /\ pc = "done"
    /\ Said("native_failed")
    /\ \E i, j \in Tasks : fut[i] = "failed" /\ fut[j] = "ok"

\* A successful answer that lacks a required field.
LacksRequired(r) == r.kind = "json" /\ ~r.error /\ ~(r.data /\ r.akid /\ r.sak /\ r.path)

\* C8: a successful answer that lacks a required field ends the run with a
\* failure report before the tool or the native path starts; an answer with
\* the required fields is accepted whether or not it has the optional ones,
\* and a missing endpoint or region is replaced by its default.
C8_RequiredFields ==
    /\ (LacksRequired(response) /\ requests_sent > 0) =>
         /\ pc = "done"
         /\ LastMsg.msg \in {"missing_data", "missing_credentials"}
         /\ rclone_runs = 0
         /\ NoNativeWork
         /\ ~Completed
    /\ (ValidManifest(response) /\ requests_sent > 0) =>
         /\ DelegatedTaken \/ NativeTaken
         /\ ~Said("missing_data") /\ ~Said("missing_credentials")
         /\ ~response.endpoint => manifest.endpoint = "https://s3.wasabisys.com"
         /\ ~response.region => manifest.region = "us-east-1"
         /\ response.endpoint => manifest.endpoint = "given-endpoint"
         /\ response.region => manifest.region = "given-region"

\* C8 witness: the data path alone is missing, the tool is requested and
\* present, and the run is over.
C8_Witness ==
    /\ response.kind = "json" /\ response.data /\ response.akid /\ response.sak
    /\ ~response.path
    /\ use_rclone /\ rclone_path
    /\ pc = "done"

\* Planning has finished with an empty plan.
PlanEmpty ==
    /\ pages_read > 0
    /\ remote = <<>>
    /\ download_tasks = <<>>
    /\ ~Said("native_failed")

\* C9: an empty plan ends the native run at once without a failure, with
\* the "no files" message and zero completed files; no pool is built, no
\* directory is made and no file is written.
C9_EmptyPlan ==
    /\ PlanEmpty =>
         /\ pc = "done"
         /\ LastMsg.msg = "no_files"
         /\ ~Failed
         /\ ~Said("found") /\ ~Said("native_completed")
         /\ ~pool_created
         /\ Tasks = {}
         /\ completed_count = 0
         /\ dirs = {} /\ files = {}
    /\ Said("no_files") => PlanEmpty

\* C9 witness: objects were listed and every one of them was skipped.
C9_Witness ==
    /\ Said("no_files")
    /\ listed >= 2

\* C10: in the delegated path completion is reported iff the tool exited
\* with code 0; a non-zero exit or a failed spawn ends the run with a
\* failure report and without completion, and the native path never starts.
C10_DelegatedOutcome ==
    rclone_runs > 0 =>
        /\ NoNativeWork
        /\ Completed <=> rclone_exit = 0
        /\ pc = "done" =>
             /\ rclone_exit = 0 => ~Failed /\ LastMsg.msg = "rclone_completed"
             /\ rclone_exit > 0 => Failed /\ LastMsg.msg = "rclone_failed"
             /\ rclone_exit < 0 => Failed /\ LastMsg.msg = "unexpected"

\* C10 witness: the tool has exited with a non-zero code.
C10_Witness ==
    /\ pc = "done"
    /\ rclone_exit > 0

\* The progress lines printed so far.
ProgressLines == SelectSeq(out, LAMBDA m : m.msg = "progress")

\* C16: the counter counts each yielded result once, never counts a download
\* that has not finished, never exceeds the number of planned files; a
\* progress line is printed exactly at each multiple of 10; the summary
\* comes when the counter equals the total and reports the total.
C16_ProgressAccounting ==
    /\ completed_count = nxt - 1
    /\ completed_count <= Len(download_tasks)
    /\ completed_count <= Cardinality({i \in Tasks : fut[i] = "ok"})
    /\ Len(ProgressLines) = completed_count \div 10
    /\ \A k \in 1..Len(ProgressLines) :
         ProgressLines[k] = Msg("progress", 10 * k, Len(download_tasks))
    /\ Said("native_completed") =>
         /\ completed_count = Len(download_tasks)
         /\ LastMsg = Msg("native_completed", Len(download_tasks), Len(download_tasks))

\* C16 witness: a progress line was printed and the summary reports more
\* files than the line counted.
C16_Witness ==
    /\ Said("progress")
    /\ Said("native_completed")
    /\ completed_count > 10

\* C18: while pages are being listed there is no pool, no task has started,
\* no directory and no file exists; whatever of these exists, the listing
\* was read to its end before; a listing that fails ends the run with
\* nothing downloaded.
C18_PlanBeforeTransfer ==
    /\ pc = "listing" => ~pool_created /\ Tasks = {} /\ dirs = {} /\ files = {}
    /\ (pool_created \/ Tasks # {} \/ dirs # {} \/ files # {}) =>
         /\ remote = <<>>
         /\ pages_read > 0
         /\ Tasks = 1..Len(download_tasks)
    /\ (Said("native_failed") /\ raised = 0) =>
         /\ pc = "done"
         /\ ~pool_created /\ Tasks = {} /\ dirs = {} /\ files = {}
         /\ ~Completed

\* C18 witness: the second page of the listing failed after the first page
\* had planned a file.
C18_Witness ==
    /\ Said("native_failed")
    /\ raised = 0
    /\ pages_read >= 2
    /\ download_tasks # <<>>

\* What the last line of a finished run can be.
FinalMsgs == FailureMsgs \cup {"rclone_completed", "native_completed", "no_files"}

\* C19: a run that has sent its request ends; it ends with a completion, a
\* "no files" or a failure message, never with both a failure and a
\* completion, and a failed download or tool always ends in a failure
\* message.
C19_Terminates ==
    /\ [](pc = "done" =>
            /\ LastMsg.msg \in FinalMsgs
            /\ ~(Failed /\ Completed)
            /\ (AnyFailed \/ rclone_exit > 0) => Failed)
    /\ (requests_sent > 0) ~> (pc = "done")

\* C19 witness: the run has ended after the client could not be created,
\* an exception raised outside the try of _replicate_native.
C19_Witness ==
    /\ pc = "done"
    /\ native_calls > 0
    /\ boto3
    /\ LastMsg.msg = "unexpected"

(* ------------------------------------------------------------------ *)
(* Strings                                                              *)
(* ------------------------------------------------------------------ *)

\* A Python str is the sequence of its characters.

\* s.startswith(p)
StartsWith(s, p) == Len(s) >= Len(p) /\ SubSeq(s, 1, Len(p)) = p

\* s.endswith(p)
EndsWith(s, p) == Len(s) >= Len(p) /\ SubSeq(s, Len(s) - Len(p) + 1, Len(s)) = p

\* s[n:]
From(s, n) == SubSeq(s, n + 1, Len(s))

\* "".join(ts)
RECURSIVE Flatten(_)
Flatten(ts) == IF ts = <<>> THEN <<>> ELSE Head(ts) \o Flatten(Tail(ts))

\* The variables only the model of the whole run uses.
whole_run == <<use_rclone, rclone_path, boto3, response, faults_left,
               using_rclone, manifest, out, requests_sent, rclone_runs,
               rclone_exit, native_calls, listed, pool_created, nxt,
               completed_count, raised, pool>>

\* The values those variables keep in the detailed models: a host without
\* the tool, with boto3, and a valid answer of the service.
WholeRunIdle ==
    /\ use_rclone = FALSE
    /\ rclone_path = FALSE
    /\ boto3 = TRUE
    /\ response = Resp("json", FALSE, TRUE, TRUE, TRUE, TRUE, FALSE, FALSE, FALSE)
    /\ faults_left = 0
    /\ Locals

(* ------------------------------------------------------------------ *)
(* Normalization of the data path (replicate, lines 384-388)           *)
(* ------------------------------------------------------------------ *)

S3Scheme == <<"s", "3", ":", "/", "/">>

S3aScheme == <<"s", "3", "a", ":", "/", "/">>

\* Longest data path, in pieces of PathTokens.
MaxTokens == 3

\* Pieces the data paths of the model are made of: the two schemes, and
\* what makes a near miss of a scheme or an ordinary bucket path.
PathTokens == {S3Scheme, S3aScheme, <<"s", "3">>, <<":">>, <<"/">>, <<"b">>, <<"a">>}

Paths == {Flatten(ts) : ts \in SeqsUpTo(PathTokens, MaxTokens)}

\* A slip: data_path[5:] for both schemes.
NormalizeDataPathSameCut(p) ==
    IF StartsWith(p, S3Scheme) THEN From(p, 5)
    ELSE IF StartsWith(p, S3aScheme) THEN From(p, 5)
    ELSE p

\* if data_path.startswith("s3://"): data_path = data_path[5:]
\* elif data_path.startswith("s3a://"): data_path = data_path[6:]
NormalizeDataPath(p) ==
    IF StartsWith(p, S3Scheme) THEN From(p, 5)
    ELSE IF StartsWith(p, S3aScheme) THEN From(p, 6)
    ELSE p

\* Lines 371 and 384-388: data_path is read from the answer and normalized.
NormalizePath ==
    /\ pc = "start"
    /\ data_path' = NormalizeDataPath(response_path)
    /\ pc' = "normalized"
    /\ UNCHANGED <<whole_run, response_path, folders, target_location, obj_size,
                   seen, transfer, remote, download_tasks, pages_read>>

InitPath ==
    /\ response_path \in Paths
    /\ folders = <<>>
    /\ target_location = <<>>
    /\ obj_size = 0
    /\ remote = <<>>
    /\ WholeRunIdle

NextPath == NormalizePath

SpecPath == InitPath /\ [][NextPath]_vars

HasScheme(p) == StartsWith(p, S3Scheme) \/ StartsWith(p, S3aScheme)

\* C17 as stated: the leading scheme is removed and nothing else changes, a
\* path without a scheme is left alone, and normalizing the normalized path
\* again changes nothing.
C17_Idempotent ==
    pc = "normalized" =>
        /\ StartsWith(response_path, S3Scheme) => S3Scheme \o data_path = response_path
        /\ StartsWith(response_path, S3aScheme) => S3aScheme \o data_path = response_path
        /\ ~HasScheme(response_path) => data_path = response_path
        /\ NormalizeDataPath(data_path) = data_path

\* C17, amended: exactly one leading scheme is removed and nothing else
\* changes, a path without a scheme is left alone, and normalizing the
\* normalized path again changes nothing unless what follows the removed
\* scheme begins with a scheme itself, of which again exactly one is removed.
C17_SchemeRemoved ==
    pc = "normalized" =>
        /\ StartsWith(response_path, S3Scheme) => S3Scheme \o data_path = response_path
        /\ StartsWith(response_path, S3aScheme) => S3aScheme \o data_path = response_path
        /\ ~HasScheme(response_path) => data_path = response_path
        /\ ~HasScheme(data_path) => NormalizeDataPath(data_path) = data_path
        /\ StartsWith(data_path, S3Scheme) =>
               S3Scheme \o NormalizeDataPath(data_path) = data_path
        /\ StartsWith(data_path, S3aScheme) =>
               S3aScheme \o NormalizeDataPath(data_path) = data_path

C17_Witness ==
    /\ pc = "normalized"
    /\ StartsWith(response_path, S3aScheme)
    /\ data_path = <<"b", "/">>

(* ------------------------------------------------------------------ *)
(* Transfer of one object (_replicate_native, lines 488-492 and 532)   *)
(* ------------------------------------------------------------------ *)

MiB == 1024 * 1024

\* multipart_threshold=1024 * 25
MultipartThreshold == 1024 * 25

\* max_concurrency=10
MaxConcurrency == 10

\* multipart_chunksize is not passed: boto3's default of 8 MiB applies.
MultipartChunksize == 8 * MiB

\* Largest object of the model, in MiB.
MaxMiB == 96

\* Sizes of the objects of the model: every whole number of MiB, and the
\* sizes next to 25 * 1024 bytes and next to 25 MiB.
Sizes ==
    {k * MiB : k \in 0..MaxMiB}
        \cup {1024 * 25 - 1, 1024 * 25, 1024 * 25 + 1, 25 * MiB - 1, 25 * MiB + 1}

\* s3.download_file(..., Config=transfer_config): the transfer manager
\* fetches an object in ranged parts unless its size is below
\* multipart_threshold.
UsesMultipart(size) == size >= MultipartThreshold

\* Ranged requests of a multipart download: one per chunk.
Parts(size) == (size + MultipartChunksize - 1) \div MultipartChunksize

\* Line 532: s3.download_file is called for an object of obj_size bytes.
DownloadFile ==
    /\ pc = "start"
    /\ transfer' = [mode |-> IF UsesMultipart(obj_size) THEN "multipart" ELSE "single",
                    parts_left |-> IF UsesMultipart(obj_size) THEN Parts(obj_size) ELSE 1,
                    in_flight |-> 0]
    /\ pc' = "transferring"
    /\ UNCHANGED <<whole_run, response_path, data_path, folders, target_location,
                   obj_size, seen, remote, download_tasks, pages_read>>

\* The transfer manager submits the next request of the file; a multipart
\* download keeps at most max_concurrency requests going.
StartPart ==
    /\ pc = "transferring"
    /\ transfer.parts_left > 0
    /\ transfer.in_flight < (IF transfer.mode = "multipart" THEN MaxConcurrency ELSE 1)
    /\ transfer' = [transfer EXCEPT !.parts_left = @ - 1, !.in_flight = @ + 1]
    /\ UNCHANGED <<whole_run, pc, response_path, data_path, folders, target_location,
                   obj_size, seen, remote, download_tasks, pages_read>>

\* A request of the file completes; download_file returns after the last.
FinishPart ==
    /\ pc = "transferring"
    /\ transfer.in_flight > 0
    /\ transfer' = [transfer EXCEPT !.in_flight = @ - 1]
    /\ pc' = IF transfer.parts_left = 0 /\ transfer.in_flight = 1
             THEN "done" ELSE "transferring"
    /\ UNCHANGED <<whole_run, response_path, data_path, folders, target_location,
                   obj_size, seen, remote, download_tasks, pages_read>>

InitTransfer ==
    /\ obj_size \in Sizes
    /\ response_path = <<>>
    /\ folders = <<>>
    /\ target_location = <<>>
    /\ remote = <<>>
    /\ WholeRunIdle

NextTransfer ==
    \/ DownloadFile
    \/ StartPart
    \/ FinishPart

SpecTransfer == InitTransfer /\ [][NextTransfer]_vars

\* C15 as stated: an object is fetched in parallel parts exactly when it
\* is larger than 25 MiB, with at most 10 part requests in flight; an object
\* of at most 25 MiB is fetched by a single request.
C15_Threshold25MiB ==
    pc # "start" =>
        /\ transfer.mode = "multipart" <=> obj_size > 25 * 1024 * 1024
        /\ transfer.mode = "single" <=> obj_size <= 25 * 1024 * 1024
        /\ transfer.in_flight <= 10

(* ------------------------------------------------------------------ *)
(* The planner (_replicate_native, lines 474-518)                      *)
(* ------------------------------------------------------------------ *)

\* Index of the first "/" of s, 0 when there is none.
SlashAt(s) ==
    IF \E i \in 1..Len(s) : s[i] = "/"
    THEN CHOOSE i \in 1..Len(s) : s[i] = "/" /\ \A j \in 1..(i - 1) : s[j] # "/"
    ELSE 0

\* parts = data_path.split('/', 1); bucket_name = parts[0]
BucketName(dp) == IF SlashAt(dp) = 0 THEN dp ELSE SubSeq(dp, 1, SlashAt(dp) - 1)

\* prefix = parts[1] if len(parts) > 1 else ""
\* if prefix and not prefix.endswith('/'): prefix += '/'
Prefix(dp) ==
    LET rest == IF SlashAt(dp) = 0 THEN <<>> ELSE From(dp, SlashAt(dp))
    IN  IF rest # <<>> /\ ~EndsWith(rest, <<"/">>) THEN rest \o <<"/">> ELSE rest

\* f.lstrip("/")
RECURSIVE LStrip(_)
LStrip(f) == IF f # <<>> /\ Head(f) = "/" THEN LStrip(Tail(f)) ELSE f

\* match_patterns: every folder without its leading separators.
MatchPatterns(fs) ==
    [i \in 1..Len(fs) |-> IF StartsWith(fs[i], <<"/">>) THEN LStrip(fs[i]) ELSE fs[i]]

\* A slip: the wildcard * stops at a path separator.
StarTakesSegment(c) == c # "/"

\* What the wildcard * of fnmatch consumes: any character (it is
\* translated to the regular expression .*).
StarTakes(c) == TRUE

\* fnmatch.fnmatch(name, pat) for patterns made of literal characters, * and ?:
\* the whole name must match.
RECURSIVE FnMatch(_, _)
FnMatch(name, pat) ==
    IF pat = <<>> THEN name = <<>>
    ELSE IF Head(pat) = "*"
         THEN \E k \in 0..Len(name) :
                  /\ \A i \in 1..k : StarTakes(name[i])
                  /\ FnMatch(From(name, k), Tail(pat))
    ELSE IF Head(pat) = "?"
         THEN name # <<>> /\ FnMatch(Tail(name), Tail(pat))
    ELSE name # <<>> /\ Head(name) = Head(pat) /\ FnMatch(Tail(name), Tail(pat))

\* A slip: all(...) instead of any(...).
RECURSIVE AllMatch(_, _)
AllMatch(rel, ps) ==
    IF ps = <<>> THEN TRUE
    ELSE FnMatch(rel, Head(ps)) /\ AllMatch(rel, Tail(ps))

\* any(fnmatch.fnmatch(rel_path, p) for p in match_patterns): the patterns
\* are tried from the first on, until one matches.
RECURSIVE AnyMatch(_, _)
AnyMatch(rel, ps) ==
    IF ps = <<>> THEN FALSE
    ELSE IF FnMatch(rel, Head(ps)) THEN TRUE
    ELSE AnyMatch(rel, Tail(ps))

\* Lines 512-515: the filter; an empty match_patterns filters nothing.
Predicate(rel, ps) == ps = <<>> \/ AnyMatch(rel, ps)

\* A slip: the filter sees the whole key.
MatchSubjectFullKey(key, prefix) == key

\* rel_path = key[len(prefix):], what the filter and the join are given.
MatchSubject(key, prefix) == From(key, Len(prefix))

\* os.path.join(a, b) of posixpath: an absolute b discards a.
Join(a, b) ==
    IF StartsWith(b, <<"/">>) THEN b
    ELSE IF a = <<>> \/ EndsWith(a, <<"/">>) THEN a \o b
    ELSE a \o <<"/">> \o b

\* Lines 502-518 for one object: the tasks it adds to the plan.
TaskOf(key, dp, fs, target) ==
    LET prefix   == Prefix(dp)
        rel_path == MatchSubject(key, prefix)
    IN  IF ~StartsWith(key, prefix) THEN <<>>
        ELSE IF From(key, Len(prefix)) = <<>> THEN <<>>
        ELSE IF ~Predicate(rel_path, MatchPatterns(fs)) THEN <<>>
        ELSE << [bucket |-> BucketName(dp), key |-> key,
                 local_file |-> Join(target, From(key, Len(prefix)))] >>

\* Lines 501-518 for the objects of one page, in the order of the page.
RECURSIVE PageTasks(_, _, _, _)
PageTasks(page, dp, fs, target) ==
    IF page = <<>> THEN <<>>
    ELSE TaskOf(Head(page), dp, fs, target) \o PageTasks(Tail(page), dp, fs, target)

\* A slip: the tasks of a later page are put in front.
TasksAfterPageFront(tasks, new) == new \o tasks

\* download_tasks.append(...) for every task of a page.
TasksAfterPage(tasks, new) == tasks \o new

\* Most objects one page of the planner's listing returns.
PlanPageSize == 1

\* Most objects of the planner's listing.
PlanMaxKeys == 2

\* Most folder patterns of a manifest.
MaxPatterns == 2

\* Data paths of the service: "b/p", "s3://b/p/" and "b" (no prefix).
PlanPaths == {<<"b", "/", "p">>, S3Scheme \o <<"b", "/", "p", "/">>, <<"b">>}

\* Target directories: "/t" and "t/".
Targets == {<<"/", "t">>, <<"t", "/">>}

\* Folder patterns: "d/*", "/d/*", "d/*a" and "a".
Patterns == {<<"d", "/", "*">>, <<"/", "d", "/", "*">>, <<"d", "/", "*", "a">>, <<"a">>}

\* Keys of stored objects: "p/" (the marker of the prefix itself), "p/a",
\* "p/d/a", "p/d/e/a", "p//a" (a doubled separator after the prefix) and
\* "q/a" (outside the prefix "p/").
Keys == {<<"p", "/">>, <<"p", "/", "a">>, <<"p", "/", "d", "/", "a">>,
         <<"p", "/", "d", "/", "e", "/", "a">>, <<"p", "/", "/", "a">>,
         <<"q", "/", "a">>}

\* A listing names every object once.
Listings ==
    {l \in SeqsUpTo(Keys, PlanMaxKeys) : \A i, j \in 1..Len(l) : l[i] = l[j] => i = j}

\* The worked example: data_path "bucket/ds1/", folders ["2024/*"] and
\* three stored objects.
ExamplePath == <<"b", "u", "c", "k", "e", "t", "/", "d", "s", "1", "/">>

ExamplePattern == <<"2", "0", "2", "4", "/", "*">>

ExampleKeyA == <<"d", "s", "1", "/", "2", "0", "2", "4", "/", "a", ".", "c", "s",
      "v">>

ExampleKeyB == <<"d", "s", "1", "/", "2", "0", "2", "4", "/", "s", "u", "b", "/",
      "b", ".", "c", "s", "v">>

ExampleKeyC == <<"d", "s", "1", "/", "2", "0", "2", "3", "/", "c", ".", "c", "s",
      "v">>

\* Lines 499-518: the planner reads the next page of the listing and
\* appends the tasks of its objects; a page without 'Contents' adds none.
PlanPage ==
    /\ pc \in {"normalized", "planning"}
    /\ LET n    == Min(PlanPageSize, Len(remote))
           page == SubSeq(remote, 1, n)
       IN  /\ seen' = seen \o page
           /\ download_tasks' =
                  TasksAfterPage(download_tasks,
                                 PageTasks(page, data_path, folders, target_location))
           /\ remote' = From(remote, n)
           /\ pc' = IF From(remote, n) = <<>> THEN "planned" ELSE "planning"
    /\ pages_read' = pages_read + 1
    /\ UNCHANGED <<whole_run, response_path, data_path, folders, target_location,
                   obj_size, transfer>>

InitPlan ==
    /\ \/ /\ response_path \in PlanPaths
          /\ folders \in SeqsUpTo(Patterns, MaxPatterns)
          /\ remote \in Listings
       \/ /\ response_path = ExamplePath
          /\ folders = <<ExamplePattern>>
          /\ remote = <<ExampleKeyA, ExampleKeyB, ExampleKeyC>>
    /\ target_location \in Targets
    /\ obj_size = 0
    /\ WholeRunIdle

NextPlan ==
    \/ NormalizePath
    \/ PlanPage

SpecPlan == InitPlan /\ [][NextPlan]_vars

\* C11: the plan is, at every moment, what lines 502-518 make of the
\* objects listed so far taken as one sequence, whatever the pages they
\* came in; the pages return the listing in its order, nothing twice and
\* nothing left out.
C11_PageConcatenation ==
    /\ [](/\ download_tasks = PageTasks(seen, data_path, folders, target_location)
          /\ pc = "planned" => remote = <<>>)
    /\ [][seen' \o remote' = seen \o remote]_vars

C11_Witness ==
    /\ pc = "planned"
    /\ pages_read >= 2
    /\ Len(download_tasks) >= 2
    /\ download_tasks[1].key = seen[1]
    /\ download_tasks[2].key = seen[2]

\* The keys the plan has a task for.
Planned == {download_tasks[t].key : t \in 1..Len(download_tasks)}

\* The objects the pages have returned so far.
Listed == {seen[i] : i \in 1..Len(seen)}

\* The relative key of an object: its key with the prefix dropped.
Rel(key) == From(key, Len(Prefix(data_path)))

\* C12: a listed object has a task iff its key starts with the prefix, its
\* relative key is not empty and the filter accepts the relative key (the
\* key without the prefix, not the whole key); nothing else has a task.
C12_PlanMembership ==
    /\ Planned \subseteq Listed
    /\ \A key \in Listed :
           key \in Planned <=>
               /\ StartsWith(key, Prefix(data_path))
               /\ Rel(key) # <<>>
               /\ Predicate(Rel(key), MatchPatterns(folders))

C12_Witness ==
    /\ pc = "planned"
    /\ Prefix(data_path) = <<"p", "/">>
    /\ folders # <<>>
    /\ \E key \in Planned : ~Predicate(key, MatchPatterns(folders))
    /\ \E key \in Listed \ Planned : StartsWith(key, Prefix(data_path)) /\ Rel(key) # <<>>

\* Lines 414-415: a trailing wildcard is made recursive,
\* folder = folder[:-1] + "**".
Rewrite(f) == IF EndsWith(f, <<"*">>) THEN SubSeq(f, 1, Len(f) - 1) \o <<"*", "*">> ELSE f

\* The glob match of path filters: * and ? stay inside one path segment,
\* ** crosses separators; the whole name must match.
RECURSIVE GlobMatch(_, _)
GlobMatch(name, pat) ==
    IF pat = <<>> THEN name = <<>>
    ELSE IF StartsWith(pat, <<"*", "*">>)
         THEN \E k \in 0..Len(name) : GlobMatch(From(name, k), From(pat, 2))
    ELSE IF Head(pat) = "*"
         THEN \E k \in 0..Len(name) :
                  /\ \A i \in 1..k : name[i] # "/"
                  /\ GlobMatch(From(name, k), Tail(pat))
    ELSE IF Head(pat) = "?"
         THEN name # <<>> /\ Head(name) # "/" /\ GlobMatch(Tail(name), Tail(pat))
    ELSE name # <<>> /\ Head(name) = Head(pat) /\ GlobMatch(Tail(name), Tail(pat))

\* Some folder pattern matches the relative key as a recursive glob: a
\* trailing wildcard takes the folder and everything beneath it.
GlobAccepts(rel, fs) ==
    \E i \in 1..Len(fs) : GlobMatch(rel, Rewrite(MatchPatterns(fs)[i]))

\* The listed objects that reach the filter.
Candidates == {key \in Listed : StartsWith(key, Prefix(data_path)) /\ Rel(key) # <<>>}

\* C13 as stated: with folder patterns, the plan takes every object whose
\* relative key some pattern matches as a recursive glob and no object
\* that no pattern matches; in the worked example the plan is the two
\* objects below 2024/.
C13_RecursiveGlob ==
    /\ folders # <<>> =>
           \A key \in Candidates : key \in Planned <=> GlobAccepts(Rel(key), folders)
    /\ (response_path = ExamplePath /\ pc = "planned") =>
           Planned = {ExampleKeyA, ExampleKeyB}

\* The patterns ps in the order given by the permutation f of their indices.
Reordered(ps, f) == [i \in 1..Len(ps) |-> ps[f[i]]]

\* C14: without folder patterns every object that reaches the filter is
\* planned; with patterns an object is planned iff its relative key matches
\* at least one of them, and the answer of the filter is the same for
\* every order of the patterns.
C14_AnyPattern ==
    /\ folders = <<>> => Candidates \subseteq Planned
    /\ folders # <<>> =>
           \A key \in Candidates :
               key \in Planned <=>
                   \E i \in 1..Len(folders) : FnMatch(Rel(key), MatchPatterns(folders)[i])
    /\ \A key \in Candidates :
           \A f \in Permutations(1..Len(folders)) :
               key \in Planned <=>
                   Predicate(Rel(key), MatchPatterns(Reordered(folders, f)))

C14_Witness ==
    /\ pc = "planned"
    /\ Len(folders) = 2
    /\ \E key \in Planned :
           /\ ~FnMatch(Rel(key), MatchPatterns(folders)[1])
           /\ FnMatch(Rel(key), MatchPatterns(folders)[2])
    /\ Candidates \ Planned # {}

\* The target directory as the leading part of the paths inside it.
TargetDir == IF EndsWith(target_location, <<"/">>) THEN target_location
             ELSE target_location \o <<"/">>

\* C20 as stated: the destination of every task is the target directory
\* followed by the relative key, so it lies inside the target directory,
\* and two tasks for different keys never have the same destination; also
\* for a relative key that begins with a separator.
C20_DestinationInside ==
    \A i \in 1..Len(download_tasks) :
        /\ download_tasks[i].local_file = TargetDir \o Rel(download_tasks[i].key)
        /\ StartsWith(download_tasks[i].local_file, TargetDir)
        /\ \A j \in 1..Len(download_tasks) :
               download_tasks[i].key # download_tasks[j].key =>
                   download_tasks[i].local_file # download_tasks[j].local_file

====
